---- MODULE Spec2Model ----
(***************************************************************************)
(* Commission calculation engine of comp-tracker                           *)
(* (src/src/services/calculator.ts) and its authentication layer           *)
(* (AuthProvider in src/unnamed/part_000, the Salesforce OAuth and session *)
(* functions in src/unnamed/part_002).                                     *)
(*                                                                         *)
(* The two calculators are pure functions.  The state is the caller's      *)
(* arguments (tier list, deal list, bookings, quota) and the value the     *)
(* last call returned; one action per exported calculator (Spec).          *)
(*                                                                         *)
(* The authentication layer is a page of the browser: its state is the     *)
(* two storages, the address, the clock, the state of the AuthProvider     *)
(* component and the positions of its asynchronous functions (AuthSpec).   *)
(*                                                                         *)
(* JavaScript numbers are modelled as exact rationals [n, d] in lowest     *)
(* terms with d > 0, and +Infinity as [n |-> 1, d |-> 0].  IEEE 754        *)
(* rounding is not modelled.  An optional field is a sequence of length    *)
(* at most one: <<>> is a missing (undefined/null) value, <<x>> is x.      *)
(***************************************************************************)
EXTENDS Integers, Sequences, FiniteSets, TLC

VARIABLES
    tiers,      \* the caller's PlanTier[] array
    deals,      \* the caller's SalesforceOpportunity[] array
    bookings,   \* the caller's bookings total
    quota,      \* the caller's quota
    called,     \* which calculator the caller has invoked ("none" before)
    ret         \* the value that call returned

VARIABLES
    localStorage,        \* the sf_* items of window.localStorage
    sessionStorage,      \* the sf_* items of window.sessionStorage
    location,            \* window.location: pathname and query parameters
    now,                 \* Date.now()
    isAuthenticated,     \* the useState cells of AuthProvider
    isLoading,
    authError,
    currentUser,
    accessLevel,
    visibleUserIds,
    loadingUserInfo,
    sessionExpiringSoon,
    sessionTimeRemaining,
    currentUserIdRef,    \* the useRef cell of AuthProvider
    checkAuth,           \* position and locals of checkAuth / handleCallback
    loadUserInfo         \* position and locals of the loadUserInfo run

calcVars == <<tiers, deals, bookings, quota, called, ret>>

authVars == <<localStorage, sessionStorage, location, now, isAuthenticated,
              isLoading, authError, currentUser, accessLevel, visibleUserIds,
              loadingUserInfo, sessionExpiringSoon, sessionTimeRemaining,
              currentUserIdRef, checkAuth, loadUserInfo>>

vars == <<calcVars, authVars>>

----------------------------------------------------------------------------
(* Bounds of the model *)

MaxTiers == 2

MaxDeals == 3

----------------------------------------------------------------------------
(* JavaScript numbers *)

Abs(x) == IF x < 0 THEN -x ELSE x

RECURSIVE GCD(_, _)
GCD(a, b) == IF b = 0 THEN a ELSE GCD(b, a % b)

(* n/d in lowest terms; a positive numerator over zero is +Infinity *)
Rat(n, d) ==
    IF d = 0 THEN [n |-> 1, d |-> 0]
    ELSE LET s == IF d < 0 THEN -1 ELSE 1
             g == GCD(Abs(n), Abs(d))
         IN  [n |-> (s * n) \div g, d |-> (s * d) \div g]

Num(i) == Rat(i, 1)

Infinity == [n |-> 1, d |-> 0]

Zero == Num(0)

IsFinite(a) == a.d # 0

Add(a, b) == IF IsFinite(a) /\ IsFinite(b)
             THEN Rat(a.n * b.d + b.n * a.d, a.d * b.d)
             ELSE Infinity

(* a - b for a finite b *)
Sub(a, b) == IF IsFinite(a)
             THEN Rat(a.n * b.d - b.n * a.d, a.d * b.d)
             ELSE Infinity

(* a * b for finite a, b *)
Mul(a, b) == Rat(a.n * b.n, a.d * b.d)

(* a / b for finite a and finite b # 0 *)
Div(a, b) == Rat(a.n * b.d, a.d * b.n)

Lt(a, b) == a.n * b.d < b.n * a.d

Le(a, b) == a.n * b.d <= b.n * a.d

Ge(a, b) == Le(b, a)

Gt(a, b) == Lt(b, a)

MathMax(a, b) == IF Lt(a, b) THEN b ELSE a

MathMin(a, b) == IF Lt(b, a) THEN b ELSE a

----------------------------------------------------------------------------
(* Optional fields and the `x || default` idiom *)

Missing == <<>>

Some(x) == <<x>>

(* Variant: a missing number read as 100 *)
MissingAsHundred(o) == IF o = Missing THEN 100 ELSE o[1]

(* `x || 0` on an optional number: undefined, null and 0 are falsy *)
OrZero(o) == IF o = Missing \/ o[1] = 0 THEN 0 ELSE o[1]

(* Variant: presence of an optional number, 0 included *)
IsPresent(o) == o # Missing

(* truthiness of an optional number *)
Truthy(o) == o # Missing /\ o[1] # 0

----------------------------------------------------------------------------
(* Array.prototype.sort *)

(* arr.sort(comparator), cmp[i][j] being the comparator's value on        *)
(* (arr[i], arr[j]), for a comparator that is a difference of numeric      *)
(* keys.  The sort is stable: elements that compare equal keep their order. *)
ArraySort(arr, cmp) ==
    LET n == Len(arr)
        Before(j, i) == \/ cmp[j][i] < 0
                        \/ cmp[j][i] = 0 /\ j < i
        Rank(i) == Cardinality({j \in 1..n : Before(j, i)}) + 1
    IN  [k \in 1..n |-> arr[CHOOSE i \in 1..n : Rank(i) = k]]

(* (a, b) => (a.Attainment_Floor__c || 0) - (b.Attainment_Floor__c || 0) *)
CompareTierFloor(a, b) ==
    OrZero(a.Attainment_Floor__c) - OrZero(b.Attainment_Floor__c)

(* Variant: no sort, tiers taken in input order *)
SortTiersNone(ts) == ts

(* [...tiers].sort(by floor): the sorted private copy *)
SortTiers(ts) ==
    ArraySort(ts, [i \in 1..Len(ts) |->
                      [j \in 1..Len(ts) |-> CompareTierFloor(ts[i], ts[j])]])

(* What `[...tiers].sort(...)` leaves in the caller's tier array: the      *)
(* spread makes a copy, so the array the caller passed is not reordered.   *)
(* Variant: tiers.sort(...) without the spread, sorting the caller's array *)
TiersInPlaceSort(ts) == SortTiers(ts)

CallerTiersAfterSort(ts) == ts

(* new Date(CloseDate).getTime(), in days since the epoch (the value in    *)
(* milliseconds is 86400000 times this; the comparator only uses the sign  *)
(* of a difference).  Salesforce date fields are ISO "YYYY-MM-DD" strings, *)
(* which Date parses as UTC midnight.                                      *)
DateGetTime(str) ==
    CASE str = "2024-01-31" -> 19753
      [] str = "2024-02-29" -> 19782
      [] str = "2024-03-01" -> 19783

(* (a, b) => new Date(a.CloseDate).getTime() - new Date(b.CloseDate).getTime() *)
CompareCloseDate(a, b) == DateGetTime(a.CloseDate) - DateGetTime(b.CloseDate)

(* Variant: a sort that reverses deals of equal close date *)
SortDealsUnstable(ds) ==
    LET n == Len(ds)
        Before(j, i) == \/ CompareCloseDate(ds[j], ds[i]) < 0
                        \/ CompareCloseDate(ds[j], ds[i]) = 0 /\ j > i
        Rank(i) == Cardinality({j \in 1..n : Before(j, i)}) + 1
    IN  [k \in 1..n |-> ds[CHOOSE i \in 1..n : Rank(i) = k]]

(* Variant: the comparator with its operands swapped *)
SortDealsDescending(ds) ==
    ArraySort(ds, [i \in 1..Len(ds) |->
                      [j \in 1..Len(ds) |-> CompareCloseDate(ds[j], ds[i])]])

(* Variant: no sort, deals taken in input order *)
SortDealsNone(ds) == ds

(* [...deals].sort(by close date): the sorted private copy *)
SortDeals(ds) ==
    ArraySort(ds, [i \in 1..Len(ds) |->
                      [j \in 1..Len(ds) |-> CompareCloseDate(ds[i], ds[j])]])

(* What `[...deals].sort(...)` leaves in the caller's deal array *)
CallerDealsAfterSort(ds) == ds

----------------------------------------------------------------------------
(* calculateTieredCommission *)

(* A number as a template literal prints it *)
NumToString(a) ==
    IF ~IsFinite(a) THEN "Infinity"
    ELSE IF a.d = 1 THEN ToString(a.n)
    ELSE ToString(a.n) \o "/" \o ToString(a.d)

(* tier.Name || `${tierFloor * 100}% - ${...}` *)
TierDisplayName(tier, tierFloor, tierCeiling) ==
    IF tier.Name # "" THEN tier.Name
    ELSE NumToString(Mul(tierFloor, Num(100))) \o "% - " \o
         (IF tierCeiling = Infinity THEN "Uncapped"
          ELSE NumToString(Mul(tierCeiling, Num(100))) \o "%")

(* Variant: the tier is not capped by its range *)
BookingsInTierUncapped(bookingsAboveFloor, tierRange) == bookingsAboveFloor

(* Math.min(bookingsAboveFloor, tierRange) *)
BookingsInTier(bookingsAboveFloor, tierRange) ==
    MathMin(bookingsAboveFloor, tierRange)

(* Variant: if (bookingsInTier >= 0) *)
EmitsEntryNonNegative(bookingsInTier) == Ge(bookingsInTier, Zero)

(* Variant: no tier ever earns an entry *)
EmitsEntryNever(bookingsInTier) == FALSE

(* if (bookingsInTier > 0) *)
EmitsEntry(bookingsInTier) == Gt(bookingsInTier, Zero)

(* Variant: totalCommission = tierCommission *)
AccumulateCommissionAssign(totalCommission, tierCommission) == tierCommission

(* totalCommission += tierCommission *)
AccumulateCommission(totalCommission, tierCommission) ==
    Add(totalCommission, tierCommission)

(* The locals of one iteration of the loop over sortedTiers *)
TierLocals(tier, b, q) ==
    LET tierFloor == Rat(OrZero(tier.Attainment_Floor__c), 100)
        tierCeiling == IF Truthy(tier.Attainment_Ceiling__c)
                       THEN Rat(tier.Attainment_Ceiling__c[1], 100)
                       ELSE Infinity
        tierRate == Rat(OrZero(tier.Commission_Rate__c), 100)
        tierFloorAmount == Mul(tierFloor, Num(q))
        tierCeilingAmount == IF tierCeiling = Infinity THEN Infinity
                             ELSE Mul(tierCeiling, Num(q))
        bookingsAboveFloor == MathMax(Sub(Num(b), tierFloorAmount), Zero)
        tierRange == Sub(tierCeilingAmount, tierFloorAmount)
        bookingsInTier == BookingsInTier(bookingsAboveFloor, tierRange)
    IN  [tierName |-> TierDisplayName(tier, tierFloor, tierCeiling),
         bookingsInTier |-> bookingsInTier,
         rateApplied |-> tierRate,
         commissionAmount |-> Mul(bookingsInTier, tierRate)]

(* for (const tier of sortedTiers) { ... } from index i on, with the       *)
(* accumulators totalCommission and breakdown                              *)
RECURSIVE TierLoop(_, _, _, _, _, _)
TierLoop(sortedTiers, i, b, q, totalCommission, breakdown) ==
    IF i > Len(sortedTiers)
    THEN [totalCommission |-> totalCommission, breakdown |-> breakdown]
    ELSE LET e == TierLocals(sortedTiers[i], b, q)
         IN  IF EmitsEntry(e.bookingsInTier)
             THEN TierLoop(sortedTiers, i + 1, b, q,
                           AccumulateCommission(totalCommission,
                                                e.commissionAmount),
                           Append(breakdown, e))
             ELSE TierLoop(sortedTiers, i + 1, b, q, totalCommission, breakdown)

(* Variant: if (quota < 0) *)
TieredGuardQuotaNegativeOnly(b, q, ts) == q < 0

(* if (quota <= 0) *)
TieredQuotaGuard(b, q, ts) == q <= 0

calculateTieredCommission(b, q, ts) ==
    IF TieredQuotaGuard(b, q, ts)
    THEN [grossCommission |-> Zero,
          tierBreakdown |-> <<>>,
          attainmentPercent |-> Zero]
    ELSE LET attainment == Div(Num(b), Num(q))
             sortedTiers == SortTiers(ts)
             r == TierLoop(sortedTiers, 1, b, q, Zero, <<>>)
         IN  [grossCommission |-> r.totalCommission,
              tierBreakdown |-> r.breakdown,
              attainmentPercent |-> Mul(attainment, Num(100))]

----------------------------------------------------------------------------
(* findTierForAttainment and calculateDealByDealCommission *)

(* Variant: attainmentPercent <= ceiling, a closed range *)
InTierInclusiveCeiling(attainmentPercent, floor, ceiling) ==
    Ge(attainmentPercent, floor) /\ Le(attainmentPercent, ceiling)

(* attainmentPercent >= floor && attainmentPercent < ceiling *)
InTier(attainmentPercent, floor, ceiling) ==
    Ge(attainmentPercent, floor) /\ Lt(attainmentPercent, ceiling)

(* const floor = tier.Attainment_Floor__c || 0 *)
MatchFloor(tier) == Num(OrZero(tier.Attainment_Floor__c))

(* const ceiling = tier.Attainment_Ceiling__c || Infinity *)
MatchCeiling(tier) == IF Truthy(tier.Attainment_Ceiling__c)
                      THEN Num(tier.Attainment_Ceiling__c[1])
                      ELSE Infinity

(* Variant: the scan without the break, a later tier replacing the match *)
RECURSIVE FindTierNoBreak(_, _, _, _)
FindTierNoBreak(attainmentPercent, ts, i, applicableTier) ==
    IF i > Len(ts) THEN applicableTier
    ELSE IF Ge(attainmentPercent, MatchFloor(ts[i]))
         THEN FindTierNoBreak(attainmentPercent, ts, i + 1, Some(ts[i]))
         ELSE FindTierNoBreak(attainmentPercent, ts, i + 1, applicableTier)

(* Variant: the scan without the tentative match above a tier's ceiling *)
RECURSIVE FindTierNoFallback(_, _, _, _)
FindTierNoFallback(attainmentPercent, ts, i, applicableTier) ==
    IF i > Len(ts) THEN applicableTier
    ELSE IF InTier(attainmentPercent, MatchFloor(ts[i]), MatchCeiling(ts[i]))
         THEN Some(ts[i])
         ELSE FindTierNoFallback(attainmentPercent, ts, i + 1, applicableTier)

(* The scan of findTierForAttainment from index i on, applicableTier being *)
(* the tentative match so far; the result is Missing for null.             *)
RECURSIVE FindTierFrom(_, _, _, _)
FindTierFrom(attainmentPercent, ts, i, applicableTier) ==
    IF i > Len(ts) THEN applicableTier
    ELSE LET tier == ts[i]
             floor == MatchFloor(tier)
             ceiling == MatchCeiling(tier)
         IN  IF InTier(attainmentPercent, floor, ceiling)
             THEN Some(tier)
             ELSE IF Ge(attainmentPercent, floor)
                  THEN FindTierFrom(attainmentPercent, ts, i + 1, Some(tier))
                  ELSE FindTierFrom(attainmentPercent, ts, i + 1, applicableTier)

findTierForAttainment(attainmentPercent, ts) ==
    FindTierFrom(attainmentPercent, ts, 1, Missing)

(* applicableTier?.Name || 'Base' *)
TierAppliedName(applicableTier) ==
    IF applicableTier = Missing \/ applicableTier[1].Name = ""
    THEN "Base"
    ELSE applicableTier[1].Name

(* applicableTier ? (applicableTier.Commission_Rate__c || 0) / 100 : 0 *)
TierAppliedRate(applicableTier) ==
    IF applicableTier # Missing
    THEN Rat(OrZero(applicableTier[1].Commission_Rate__c), 100)
    ELSE Zero

(* Variant: runningBookings = dealAmount *)
RunningBookingsReset(runningBookings, dealAmount) == dealAmount

(* runningBookings += dealAmount *)
RunningBookingsAdd(runningBookings, dealAmount) ==
    Add(runningBookings, dealAmount)

(* Variant: runningBookings / quota, a fraction instead of a percentage *)
AttainmentAsFraction(runningBookings, q) == Div(runningBookings, Num(q))

(* (runningBookings / quota) * 100 *)
AttainmentAtDeal(runningBookings, q) ==
    Mul(Div(runningBookings, Num(q)), Num(100))

(* Variant: the whole running total is paid at the rate reached *)
CommissionOnRunningTotal(dealAmount, commissionRate, runningBookings) ==
    Mul(runningBookings, commissionRate)

(* dealAmount * commissionRate; the running total plays no part *)
CommissionAmount(dealAmount, commissionRate, runningBookings) ==
    Mul(dealAmount, commissionRate)

(* for (const deal of sortedDeals) { ... } from index i on, with the       *)
(* accumulators runningBookings and dealCommissions                        *)
RECURSIVE DealLoop(_, _, _, _, _, _)
DealLoop(sortedDeals, i, q, sortedTiers, runningBookings, dealCommissions) ==
    IF i > Len(sortedDeals) THEN dealCommissions
    ELSE LET deal == sortedDeals[i]
             dealAmount == Num(OrZero(deal.Amount))
             running == RunningBookingsAdd(runningBookings, dealAmount)
             attainmentAtDeal == AttainmentAtDeal(running, q)
             applicableTier == findTierForAttainment(attainmentAtDeal, sortedTiers)
             commissionRate == TierAppliedRate(applicableTier)
             commissionAmount == CommissionAmount(dealAmount, commissionRate,
                                                  running)
         IN  DealLoop(sortedDeals, i + 1, q, sortedTiers, running,
                      Append(dealCommissions,
                             [opportunityId |-> deal.Id,
                              opportunityName |-> deal.Name,
                              dealAmount |-> dealAmount,
                              commissionRate |-> commissionRate,
                              commissionAmount |-> commissionAmount,
                              tierApplied |-> TierAppliedName(applicableTier),
                              attainmentAtDeal |-> attainmentAtDeal,
                              runningBookings |-> running]))

(* Variant: if (deals.length === 0) *)
DealGuardEmptyOnly(ds, q, ts) == Len(ds) = 0

(* if (quota <= 0 || deals.length === 0) *)
DealByDealGuard(ds, q, ts) == q <= 0 \/ Len(ds) = 0

calculateDealByDealCommission(ds, q, ts) ==
    IF DealByDealGuard(ds, q, ts) THEN <<>>
    ELSE DealLoop(SortDeals(ds), 1, q, SortTiers(ts), Zero, <<>>)

----------------------------------------------------------------------------
(* The caller's arguments *)

(* PlanTier values: whole-number percentages.  The ceiling is optional in  *)
(* the type; a ceiling of 0 is a value the type allows.  A plan has a base *)
(* tier and an accelerator tier kind, told apart by name and rate.         *)
TierKinds ==
    {[Name |-> "Base Rate", Commission_Rate__c |-> Some(10)],
     [Name |-> "Accelerator", Commission_Rate__c |-> Some(20)]}

Floors == {Some(0), Some(100)}

Ceilings == {Missing, Some(0), Some(100)}

TierPool ==
    {[Name |-> k.Name, Attainment_Floor__c |-> f,
      Attainment_Ceiling__c |-> c, Commission_Rate__c |-> k.Commission_Rate__c] :
        k \in TierKinds, f \in Floors, c \in Ceilings}

(* Tiers the engine accepts without validation: an unnamed tier that ends *)
(* below the next floor (a gap), a negative floor, a ceiling below the     *)
(* floor, a tier with every optional number absent, an uncapped top tier   *)
(* and a capped accelerator                                                *)
UnvalidatedTierPool ==
    {[Name |-> "", Attainment_Floor__c |-> Some(0),
      Attainment_Ceiling__c |-> Some(50), Commission_Rate__c |-> Some(10)],
     [Name |-> "Draw", Attainment_Floor__c |-> Some(-50),
      Attainment_Ceiling__c |-> Some(50), Commission_Rate__c |-> Some(5)],
     [Name |-> "Inverted", Attainment_Floor__c |-> Some(100),
      Attainment_Ceiling__c |-> Some(50), Commission_Rate__c |-> Some(15)],
     [Name |-> "Defaulted", Attainment_Floor__c |-> Missing,
      Attainment_Ceiling__c |-> Missing, Commission_Rate__c |-> Missing],
     [Name |-> "Top", Attainment_Floor__c |-> Some(100),
      Attainment_Ceiling__c |-> Missing, Commission_Rate__c |-> Some(20)],
     [Name |-> "Accelerator", Attainment_Floor__c |-> Some(50),
      Attainment_Ceiling__c |-> Some(150), Commission_Rate__c |-> Some(15)]}

SeqsUpTo(S, n) == UNION {[1..k -> S] : k \in 0..n}

UnvalidatedTierLists == SeqsUpTo(UnvalidatedTierPool, MaxTiers)

TierLists == SeqsUpTo(TierPool, MaxTiers)

(* SalesforceOpportunity values.  Ids are unique per record; the i-th     *)
(* deal of the caller's list carries the i-th id.                          *)
Amounts == {Missing, Some(-1), Some(2)}

CloseDates == {"2024-01-31", "2024-02-29", "2024-03-01"}

DealId(i) == "006-" \o ToString(i)

DealName(i) == "Opportunity " \o ToString(i)

DealListsOver(amounts, dates, maxLen) ==
    UNION {
        {[i \in 1..k |-> [Id |-> DealId(i), Name |-> DealName(i),
                          Amount |-> a[i], CloseDate |-> c[i]]] :
            a \in [1..k -> amounts], c \in [1..k -> dates]}
        : k \in 0..maxLen}

DealLists == DealListsOver(Amounts, CloseDates, MaxDeals)

(* A single deal (or none) whose amount is the whole running total *)
SingleDealLists == DealListsOver({Missing, Some(1), Some(2)}, {"2024-03-01"}, 1)

Quotas == {-1, 0, 1, 2}

BookingsTotals == {0, 1, 2, 3}

(* The example of the doc comment of calculateTieredCommission, which the  *)
(* worked example evaluates at bookings 150000 and quota 100000            *)
ExampleTiers ==
    << [Name |-> "Base Rate", Attainment_Floor__c |-> Some(0),
        Attainment_Ceiling__c |-> Some(100), Commission_Rate__c |-> Some(10)],
       [Name |-> "Accelerator", Attainment_Floor__c |-> Some(100),
        Attainment_Ceiling__c |-> Some(125), Commission_Rate__c |-> Some(15)],
       [Name |-> "Super Accelerator", Attainment_Floor__c |-> Some(125),
        Attainment_Ceiling__c |-> Missing, Commission_Rate__c |-> Some(20)] >>

(* The same tiers as the caller may hold them, highest floor first *)
ReversedExampleTiers == <<ExampleTiers[3], ExampleTiers[2], ExampleTiers[1]>>

----------------------------------------------------------------------------
(* The state machine *)

NoResult == <<"none">>

InitAggregate ==
    /\ tiers \in TierLists
    /\ deals = <<>>
    /\ bookings \in BookingsTotals
    /\ quota \in Quotas

(* every tier schedule of the pool, with one deal *)
InitMatching ==
    /\ tiers \in TierLists
    /\ deals \in SingleDealLists
    /\ bookings = 0
    /\ quota \in Quotas

(* every deal list, with the schedule of the example in either order *)
InitAttribution ==
    /\ tiers \in {ExampleTiers, ReversedExampleTiers}
    /\ deals \in DealLists
    /\ bookings = 0
    /\ quota \in Quotas

(* every schedule of unvalidated tiers, with a bookings total or one deal *)
InitUnvalidated ==
    /\ tiers \in UnvalidatedTierLists
    /\ \/ deals = <<>> /\ bookings \in BookingsTotals
       \/ deals \in SingleDealLists /\ bookings = 0
    /\ quota \in Quotas

InitExample ==
    /\ tiers = ExampleTiers
    /\ deals = <<>>
    /\ bookings = 150000
    /\ quota = 100000

(* no page is loaded: the calculators are called on their own *)
NoPage ==
    /\ localStorage = <<>>
    /\ sessionStorage = <<>>
    /\ location = <<>>
    /\ now = 0
    /\ isAuthenticated = FALSE
    /\ isLoading = TRUE
    /\ authError = <<>>
    /\ currentUser = <<>>
    /\ accessLevel = "rep"
    /\ visibleUserIds = <<>>
    /\ loadingUserInfo = TRUE
    /\ sessionExpiringSoon = FALSE
    /\ sessionTimeRemaining = 0
    /\ currentUserIdRef = ""
    /\ checkAuth = <<>>
    /\ loadUserInfo = <<>>

Init ==
    /\ \/ InitAggregate
       \/ InitMatching
       \/ InitAttribution
       \/ InitUnvalidated
       \/ InitExample
    /\ called = "none"
    /\ ret = NoResult
    /\ NoPage

(* The caller invokes calculateTieredCommission(bookings, quota, tiers) *)
CallTiered ==
    /\ called = "none"
    /\ called' = "calculateTieredCommission"
    /\ ret' = calculateTieredCommission(bookings, quota, tiers)
    /\ tiers' = CallerTiersAfterSort(tiers)
    /\ UNCHANGED <<deals, bookings, quota>>
    /\ UNCHANGED authVars

(* The caller invokes calculateDealByDealCommission(deals, quota, tiers) *)
CallDealByDeal ==
    /\ called = "none"
    /\ called' = "calculateDealByDealCommission"
    /\ ret' = calculateDealByDealCommission(deals, quota, tiers)
    /\ deals' = CallerDealsAfterSort(deals)
    /\ tiers' = CallerTiersAfterSort(tiers)
    /\ UNCHANGED <<bookings, quota>>
    /\ UNCHANGED authVars

Next == CallTiered \/ CallDealByDeal

Spec == Init /\ [][Next]_vars

----------------------------------------------------------------------------
(* Properties of the aggregate calculator *)

Tiered == called = "calculateTieredCommission"

DealByDeal == called = "calculateDealByDealCommission"

(* C1: for every bookings >= 0, every tier schedule and every quota <= 0,  *)
(* calculateTieredCommission returns exactly grossCommission 0, an empty   *)
(* tierBreakdown and attainmentPercent 0.                                  *)
C1_NonPositiveQuotaGivesZeroResult ==
    (Tiered /\ quota <= 0 /\ bookings >= 0) =>
        ret = [grossCommission |-> Num(0), tierBreakdown |-> <<>>,
               attainmentPercent |-> Num(0)]

C1_Witness ==
    /\ Tiered
    /\ quota <= 0
    /\ bookings > 0
    /\ Len(tiers) > 0
    /\ ret.grossCommission = Num(0)

(* C3: the worked example.  bookings 150000 and quota 100000 with tiers    *)
(* 0-100% at 10%, 100-125% at 15%, 125%+ at 20% give attainmentPercent 150,*)
(* three breakdown entries with bookingsInTier 100000, 25000, 25000 and    *)
(* commissions 10000, 3750, 5000, and grossCommission 18750.               *)
C3_WorkedExample ==
    (Tiered /\ tiers = ExampleTiers /\ bookings = 150000 /\ quota = 100000) =>
        /\ ret.attainmentPercent = Num(150)
        /\ Len(ret.tierBreakdown) = 3
        /\ ret.tierBreakdown[1].bookingsInTier = Num(100000)
        /\ ret.tierBreakdown[2].bookingsInTier = Num(25000)
        /\ ret.tierBreakdown[3].bookingsInTier = Num(25000)
        /\ ret.tierBreakdown[1].commissionAmount = Num(10000)
        /\ ret.tierBreakdown[2].commissionAmount = Num(3750)
        /\ ret.tierBreakdown[3].commissionAmount = Num(5000)
        /\ ret.grossCommission = Num(18750)

C3_Witness ==
    /\ Tiered
    /\ tiers = ExampleTiers
    /\ bookings = 150000
    /\ quota = 100000
    /\ Len(ret.tierBreakdown) = 3

(* A single flat tier: floor 0, no ceiling, any rate *)
IsFlatSchedule(ts) ==
    /\ Len(ts) = 1
    /\ ts[1].Attainment_Floor__c = Some(0)
    /\ ts[1].Attainment_Ceiling__c = Missing
    /\ ts[1].Commission_Rate__c # Missing

FlatGrossAndAttainment ==
    /\ ret.grossCommission = Rat(bookings * tiers[1].Commission_Rate__c[1], 100)
    /\ ret.attainmentPercent = Rat(bookings * 100, quota)

(* C4 as stated: with a single flat tier {floor 0, ceiling unbounded,      *)
(* rate R}, for every bookings B >= 0 and quota Q > 0, grossCommission is  *)
(* B*R/100, attainmentPercent is B/Q*100 and tierBreakdown has exactly one *)
(* entry.                                                                  *)
C4_FlatTierAlwaysOneEntry ==
    (Tiered /\ IsFlatSchedule(tiers) /\ bookings >= 0 /\ quota > 0) =>
        /\ FlatGrossAndAttainment
        /\ Len(ret.tierBreakdown) = 1

(* C4 amended: with a single flat tier, for every B >= 0 and Q > 0,        *)
(* grossCommission is B*R/100 and attainmentPercent is B/Q*100;            *)
(* tierBreakdown has exactly one entry when B > 0 and none when B = 0.     *)
C4_FlatTierOneEntryWhenBooked ==
    (Tiered /\ IsFlatSchedule(tiers) /\ bookings >= 0 /\ quota > 0) =>
        /\ FlatGrossAndAttainment
        /\ Len(ret.tierBreakdown) = (IF bookings > 0 THEN 1 ELSE 0)

C4_Witness ==
    /\ Tiered
    /\ IsFlatSchedule(tiers)
    /\ quota = 2
    /\ bookings = 3
    /\ Len(ret.tierBreakdown) = 1
    /\ ret.attainmentPercent = Num(150)

----------------------------------------------------------------------------
(* Properties of the deal-by-deal attribution *)

(* C2: whenever quota <= 0 or the deal list is empty,                      *)
(* calculateDealByDealCommission returns the empty sequence, for every     *)
(* tier schedule and every deal list.                                      *)
C2_NonPositiveQuotaOrNoDealsGivesEmpty ==
    (DealByDeal /\ (quota <= 0 \/ Len(deals) = 0)) => ret = <<>>

C2_Witness ==
    /\ DealByDeal
    /\ quota <= 0
    /\ Len(deals) > 0
    /\ Len(tiers) > 0
    /\ ret = <<>>

(* The record emitted for tier t: its name (or "Base" for an empty name)   *)
(* and its rate as a fraction                                              *)
AttributedTo(rec, t) ==
    /\ rec.tierApplied = (IF t.Name = "" THEN "Base" ELSE t.Name)
    /\ rec.commissionRate = Rat(OrZero(t.Commission_Rate__c), 100)

(* Tier a's ceiling is the number c and tier b's floor is the number c *)
Adjacent(a, b, c) ==
    /\ a.Attainment_Ceiling__c = Some(c)
    /\ b.Attainment_Floor__c = Some(c)

(* c lies in the range [floor, ceiling) the matcher uses for tier t, where *)
(* a missing or zero ceiling is unbounded                                  *)
EffectiveRangeContains(t, c) ==
    /\ OrZero(t.Attainment_Floor__c) <= c
    /\ \/ ~Truthy(t.Attainment_Ceiling__c)
       \/ c < t.Attainment_Ceiling__c[1]

BoundaryValues == {0, 100}

DealWithId(id) == deals[CHOOSE i \in 1..Len(deals) : deals[i].Id = id]

RecordIndex(id) == CHOOSE k \in 1..Len(ret) : ret[k].opportunityId = id

CloseTimeOfRecord(k) == DateGetTime(DealWithId(ret[k].opportunityId).CloseDate)

(* C6: for quota > 0 the attribution output has exactly one record per     *)
(* input deal, and the records are in ascending close-date order whatever  *)
(* the order of the input list.                                            *)
C6_OneRecordPerDealInCloseDateOrder ==
    (DealByDeal /\ quota > 0) =>
        /\ Len(ret) = Len(deals)
        /\ \A i \in 1..Len(deals) :
               Cardinality({k \in 1..Len(ret) :
                               ret[k].opportunityId = deals[i].Id}) = 1
        /\ \A k \in 1..Len(ret) - 1 :
               CloseTimeOfRecord(k) <= CloseTimeOfRecord(k + 1)

C6_Witness ==
    /\ DealByDeal
    /\ quota > 0
    /\ Len(deals) = 3
    /\ Len(ret) = 3
    /\ DateGetTime(deals[1].CloseDate) > DateGetTime(deals[2].CloseDate)
    /\ DateGetTime(deals[2].CloseDate) > DateGetTime(deals[3].CloseDate)
    /\ ret[1].opportunityId = deals[3].Id

(* C7: two deals with equal close dates appear in the output in the same   *)
(* relative order as in the input list, and the running totals are         *)
(* accumulated in output order.                                            *)
C7_EqualCloseDatesKeepInputOrder ==
    (DealByDeal /\ quota > 0) =>
        /\ \A i, j \in 1..Len(deals) :
               (i < j /\ DateGetTime(deals[i].CloseDate)
                           = DateGetTime(deals[j].CloseDate))
                   => RecordIndex(deals[i].Id) < RecordIndex(deals[j].Id)
        /\ \A k \in 1..Len(ret) :
               ret[k].runningBookings =
                   Add(IF k = 1 THEN Zero ELSE ret[k - 1].runningBookings,
                       ret[k].dealAmount)

C7_Witness ==
    /\ DealByDeal
    /\ quota > 0
    /\ Len(deals) = 3
    /\ deals[1].CloseDate = deals[3].CloseDate
    /\ DateGetTime(deals[2].CloseDate) < DateGetTime(deals[1].CloseDate)
    /\ deals[1].Amount = Some(2)
    /\ deals[3].Amount = Some(-1)
    /\ ret[2].opportunityId = deals[1].Id
    /\ ret[3].opportunityId = deals[3].Id

Permutations1(n) ==
    {p \in [1..n -> 1..n] : \A a, b \in 1..n : a # b => p[a] # p[b]}

DistinctCloseDates(ds) ==
    \A a, b \in 1..Len(ds) :
        a # b => DateGetTime(ds[a].CloseDate) # DateGetTime(ds[b].CloseDate)

(* C8: for the same quota and tiers, every input ordering of the same      *)
(* deals with pairwise distinct close dates yields the output sequence     *)
(* the call returned, field for field.                                     *)
C8_OutputIndependentOfInputOrder ==
    (DealByDeal /\ DistinctCloseDates(deals)) =>
        \A p \in Permutations1(Len(deals)) :
            calculateDealByDealCommission(
                [i \in 1..Len(deals) |-> deals[p[i]]], quota, tiers) = ret

C8_Witness ==
    /\ DealByDeal
    /\ quota > 0
    /\ Len(deals) = 3
    /\ DistinctCloseDates(deals)
    /\ SortDeals(deals) # deals
    /\ ret[1].tierApplied # ret[3].tierApplied

(* C9: in every attribution output where all deal amounts are              *)
(* non-negative, runningBookings is non-decreasing from each record to the *)
(* next.                                                                   *)
C9_RunningBookingsNonDecreasing ==
    (DealByDeal /\ \A i \in 1..Len(deals) : OrZero(deals[i].Amount) >= 0) =>
        \A k \in 1..Len(ret) - 1 :
            Le(ret[k].runningBookings, ret[k + 1].runningBookings)

C9_Witness ==
    /\ DealByDeal
    /\ quota > 0
    /\ Len(deals) = 3
    /\ \A i \in 1..3 : OrZero(deals[i].Amount) >= 0
    /\ Lt(ret[1].runningBookings, ret[2].runningBookings)
    /\ ret[2].runningBookings = ret[3].runningBookings

(* C10: neither calculator changes the caller's tier list or deal list:    *)
(* after a call they hold the same elements in the same order with the     *)
(* same field values as before it.                                         *)
C10_CallerInputsNotMutated ==
    [][tiers' = tiers /\ deals' = deals]_vars

(* a call that sorted: the caller's lists are still in their unsorted order *)
C10_Witness ==
    /\ DealByDeal
    /\ quota > 0
    /\ Len(ret) = 3
    /\ SortTiers(tiers) # tiers
    /\ SortDeals(deals) # deals
    /\ tiers = ReversedExampleTiers


(* ---------------------------------------------------------------------- *)
(* The per-tier arithmetic stated over whole numbers: percentages as given *)
(* and currency in hundredths, so that no division takes part.             *)
FloorPct(t) ==
    IF t.Attainment_Floor__c = <<>> THEN 0 ELSE t.Attainment_Floor__c[1]

RatePct(t) ==
    IF t.Commission_Rate__c = <<>> THEN 0 ELSE t.Commission_Rate__c[1]

(* a tier is unbounded when it carries no ceiling or a ceiling of 0 *)
IsUnbounded(t) ==
    \/ t.Attainment_Ceiling__c = <<>>
    \/ t.Attainment_Ceiling__c[1] = 0

AboveFloorH(t) ==
    IF 100 * bookings - FloorPct(t) * quota > 0
    THEN 100 * bookings - FloorPct(t) * quota ELSE 0

RangeH(t) == (t.Attainment_Ceiling__c[1] - FloorPct(t)) * quota

InTierH(t) ==
    IF IsUnbounded(t) \/ AboveFloorH(t) <= RangeH(t)
    THEN AboveFloorH(t) ELSE RangeH(t)

PaidH(t) == IF InTierH(t) > 0 THEN InTierH(t) * RatePct(t) ELSE 0

RECURSIVE SumPaidH(_)
SumPaidH(i) == IF i = 0 THEN 0 ELSE SumPaidH(i - 1) + PaidH(tiers[i])

(* C11: every entry of tierBreakdown has bookingsInTier > 0; the entries   *)
(* are as many as the tiers whose computed bookingsInTier is positive, and *)
(* grossCommission is made of those tiers' amounts alone: a tier with      *)
(* bookings at or below its floor, or a ceiling at or below its floor,     *)
(* adds no entry and no commission.                                        *)
C11_OnlyPositiveTiersContribute ==
    (Tiered /\ quota > 0) =>
        /\ \A k \in DOMAIN ret.tierBreakdown :
               Gt(ret.tierBreakdown[k].bookingsInTier, Zero)
        /\ Len(ret.tierBreakdown) =
               Cardinality({i \in DOMAIN tiers : InTierH(tiers[i]) > 0})
        /\ ret.grossCommission = Rat(SumPaidH(Len(tiers)), 10000)

(* a ceiling below the floor next to a tier that does earn an entry *)
C11_Witness ==
    /\ Tiered /\ quota > 0
    /\ Len(tiers) = 2
    /\ \E i \in DOMAIN tiers : InTierH(tiers[i]) < 0
    /\ Len(ret.tierBreakdown) = 1
    /\ Gt(ret.grossCommission, Zero)

(* the tiers whose floor is at or below an attainment percentage *)
TiersAtOrBelow(attainment) ==
    {i \in DOMAIN tiers : Le(Num(FloorPct(tiers[i])), attainment)}

(* C12: a record has tierApplied = "Base" exactly when no tier has         *)
(* floor <= attainmentAtDeal, and then commissionRate = 0 and              *)
(* commissionAmount = 0; whenever some tier matches, tierApplied is that   *)
(* tier's name, whatever the name is, and commissionRate is its            *)
(* ratePercent / 100.                                                      *)
C12_BaseExactlyWhenNoTierMatches ==
    DealByDeal =>
        \A k \in DOMAIN ret :
            LET rec == ret[k]
                below == TiersAtOrBelow(rec.attainmentAtDeal)
                matched == findTierForAttainment(rec.attainmentAtDeal,
                                                 SortTiers(tiers))
            IN  /\ (rec.tierApplied = "Base") <=> (below = {})
                /\ (below = {}) =>
                       /\ rec.commissionRate = Zero
                       /\ rec.commissionAmount = Zero
                /\ (below # {}) =>
                       /\ matched # <<>>
                       /\ rec.tierApplied = matched[1].Name
                       /\ rec.commissionRate =
                              Rat(RatePct(matched[1]), 100)

(* a finite number: neither Infinity nor the outcome of a division by 0 *)
IsResultNumber(x) ==
    /\ DOMAIN x = {"n", "d"}
    /\ x.d > 0

IsCommissionCalculation(r) ==
    /\ DOMAIN r = {"grossCommission", "tierBreakdown", "attainmentPercent"}
    /\ IsResultNumber(r.grossCommission)
    /\ IsResultNumber(r.attainmentPercent)
    /\ DOMAIN r.tierBreakdown = 1..Len(r.tierBreakdown)
    /\ \A k \in DOMAIN r.tierBreakdown :
           /\ DOMAIN r.tierBreakdown[k] =
                  {"tierName", "bookingsInTier", "rateApplied",
                   "commissionAmount"}
           /\ IsResultNumber(r.tierBreakdown[k].bookingsInTier)
           /\ IsResultNumber(r.tierBreakdown[k].rateApplied)
           /\ IsResultNumber(r.tierBreakdown[k].commissionAmount)

IsDealCommissionList(r) ==
    /\ DOMAIN r = 1..Len(r)
    /\ \A k \in DOMAIN r :
           /\ DOMAIN r[k] =
                  {"opportunityId", "opportunityName", "dealAmount",
                   "commissionRate", "commissionAmount", "tierApplied",
                   "attainmentAtDeal", "runningBookings"}
           /\ IsResultNumber(r[k].dealAmount)
           /\ IsResultNumber(r[k].commissionRate)
           /\ IsResultNumber(r[k].commissionAmount)
           /\ IsResultNumber(r[k].attainmentAtDeal)
           /\ IsResultNumber(r[k].runningBookings)

(* C13: neither calculator has an error outcome: for every quota, 0 and    *)
(* negative included, and every schedule (overlapping, gapped, negative    *)
(* floors, ceiling below floor, empty) a call returns a result value, a    *)
(* CommissionCalculation or a list of records whose numbers are all        *)
(* finite.                                                                 *)
C13_BothCalculatorsReturnAResult ==
    /\ Tiered => IsCommissionCalculation(ret)
    /\ DealByDeal => IsDealCommissionList(ret)

(* a record computed over a negative floor and a ceiling below its floor *)
C13_Witness ==
    /\ DealByDeal /\ quota > 0
    /\ Len(ret) = 1
    /\ \E i \in DOMAIN tiers : FloorPct(tiers[i]) < 0
    /\ \E i \in DOMAIN tiers :
           /\ ~IsUnbounded(tiers[i])
           /\ tiers[i].Attainment_Ceiling__c[1] < FloorPct(tiers[i])

(* floor <= attainment < ceiling, a tier without ceiling having none *)
RangeContains(t, attainment) ==
    /\ Le(Num(FloorPct(t)), attainment)
    /\ \/ IsUnbounded(t)
       \/ Lt(attainment, Num(t.Attainment_Ceiling__c[1]))

(* tier i comes before tier j in ascending-floor order, input order        *)
(* deciding between equal floors                                           *)
PrecedesInFloorOrder(i, j) ==
    \/ FloorPct(tiers[i]) < FloorPct(tiers[j])
    \/ FloorPct(tiers[i]) = FloorPct(tiers[j]) /\ i < j

TiersContaining(attainment) ==
    {i \in DOMAIN tiers : RangeContains(tiers[i], attainment)}

FirstContaining(attainment) ==
    CHOOSE i \in TiersContaining(attainment) :
        \A j \in TiersContaining(attainment) \ {i} :
            PrecedesInFloorOrder(i, j)

GreatestFloorAtOrBelow(attainment) ==
    CHOOSE i \in TiersAtOrBelow(attainment) :
        \A j \in TiersAtOrBelow(attainment) \ {i} :
            PrecedesInFloorOrder(j, i)

(* C15: when no tier contains attainmentAtDeal in [floor, ceiling) but     *)
(* some tier has floor <= attainmentAtDeal (the attainment lies above      *)
(* every ceiling or in a gap), the tier matched is the one with the        *)
(* greatest floor <= attainmentAtDeal and the record is paid at its rate.  *)
C15_FallbackIsGreatestFloorAtOrBelow ==
    DealByDeal =>
        \A k \in DOMAIN ret :
            LET attainment == ret[k].attainmentAtDeal
            IN  (/\ TiersContaining(attainment) = {}
                 /\ TiersAtOrBelow(attainment) # {}) =>
                    LET t == tiers[GreatestFloorAtOrBelow(attainment)]
                    IN  /\ findTierForAttainment(attainment,
                                                 SortTiers(tiers)) = Some(t)
                        /\ ret[k].commissionRate = Rat(RatePct(t), 100)

(* an attainment above the ceilings of two tiers of different floors and   *)
(* rates, given in descending-floor order                                  *)
C15_Witness ==
    /\ DealByDeal
    /\ \E k \in DOMAIN ret :
           LET attainment == ret[k].attainmentAtDeal
           IN  /\ TiersContaining(attainment) = {}
               /\ \E i, j \in TiersAtOrBelow(attainment) :
                      /\ i < j
                      /\ FloorPct(tiers[i]) > FloorPct(tiers[j])
                      /\ RatePct(tiers[i]) # RatePct(tiers[j])
                      /\ ret[k].commissionRate =
                             Rat(RatePct(tiers[i]), 100)

(* the position in the input list of the deal a record is about *)
DealIndexOfRecord(k) ==
    CHOOSE i \in DOMAIN deals : deals[i].Id = ret[k].opportunityId

AmountOf(i) == IF deals[i].Amount = <<>> THEN 0 ELSE deals[i].Amount[1]

(* deal j closes no later than deal i, input order deciding between equal  *)
(* close dates                                                             *)
ClosesNoLaterThan(j, i) ==
    \/ j = i
    \/ DateGetTime(deals[j].CloseDate) < DateGetTime(deals[i].CloseDate)
    \/ /\ DateGetTime(deals[j].CloseDate) = DateGetTime(deals[i].CloseDate)
       /\ j < i

(* the sum of the amounts, among deals 1..n, of those closing no later     *)
(* than deal i                                                             *)
RECURSIVE AmountsThrough(_, _)
AmountsThrough(i, n) ==
    IF n = 0 THEN 0
    ELSE AmountsThrough(i, n - 1)
            + (IF ClosesNoLaterThan(n, i) THEN AmountOf(n) ELSE 0)

(* C16: the k-th record is about the k-th deal in close-date order; its    *)
(* runningBookings is the sum of the amounts of the first k deals in that  *)
(* order, the k-th deal's own amount included, its attainmentAtDeal is     *)
(* runningBookings / quota * 100, and its tier is the one matched for this *)
(* post-deal attainment.                                                   *)
C16_RunningTotalIncludesTheDeal ==
    (DealByDeal /\ quota > 0) =>
        \A k \in DOMAIN ret :
            LET i == DealIndexOfRecord(k)
                total == AmountsThrough(i, Len(deals))
                matched == findTierForAttainment(Rat(100 * total, quota),
                                                 SortTiers(tiers))
            IN  /\ Cardinality({j \in DOMAIN deals :
                                   ClosesNoLaterThan(j, i)}) = k
                /\ ret[k].runningBookings = Num(total)
                /\ ret[k].attainmentAtDeal = Rat(100 * total, quota)
                /\ ret[k].commissionRate = TierAppliedRate(matched)
                /\ ret[k].tierApplied = TierAppliedName(matched)

(* the second deal in close-date order, given out of order, is paid at a   *)
(* rate its own amount has reached                                         *)
C16_Witness ==
    /\ DealByDeal /\ quota > 0
    /\ Len(ret) >= 2
    /\ DealIndexOfRecord(2) = 1
    /\ Gt(ret[2].dealAmount, Zero)
    /\ ret[2].commissionRate #
           TierAppliedRate(findTierForAttainment(ret[1].attainmentAtDeal,
                                                 SortTiers(tiers)))

(* the rate in percent of the tier matched for record k, 0 without a tier *)
MatchedRatePct(k) ==
    LET matched == findTierForAttainment(ret[k].attainmentAtDeal,
                                         SortTiers(tiers))
    IN  IF matched = <<>> THEN 0 ELSE RatePct(matched[1])

(* C17: every record has commissionAmount = dealAmount * commissionRate,   *)
(* commissionRate being the rate of the one tier matched for the deal: a   *)
(* deal that carries the running attainment across a tier boundary is paid *)
(* in full at the rate of the tier reached, no part of it at another rate. *)
C17_DealPaidAtASingleRate ==
    DealByDeal =>
        \A k \in DOMAIN ret :
            LET amount == AmountOf(DealIndexOfRecord(k))
            IN  /\ ret[k].dealAmount = Num(amount)
                /\ ret[k].commissionRate = Rat(MatchedRatePct(k), 100)
                /\ ret[k].commissionAmount =
                       Rat(amount * MatchedRatePct(k), 100)

(* a deal of 2 takes the attainment from the 15% tier into the 20% tier    *)
(* and is paid 2 * 20% whole                                               *)
C17_Witness ==
    /\ DealByDeal
    /\ Len(ret) >= 2
    /\ MatchedRatePct(1) = 15
    /\ MatchedRatePct(2) = 20
    /\ ret[2].dealAmount = Num(2)
    /\ Lt(ret[1].attainmentAtDeal, ret[2].attainmentAtDeal)
    /\ ret[2].commissionAmount = Rat(40, 100)

(* the positions of the tiers in ascending-floor order, input order        *)
(* deciding between equal floors                                           *)
FloorOrder ==
    CHOOSE p \in Permutations1(Len(tiers)) :
        \A a, b \in 1..Len(tiers) :
            a < b => PrecedesInFloorOrder(p[a], p[b])

TiersInFloorOrder == [k \in 1..Len(tiers) |-> tiers[FloorOrder[k]]]

HasPositiveShare(t) == InTierH(t) > 0

PayingTiers == SelectSeq(TiersInFloorOrder, HasPositiveShare)

RECURSIVE SumOfCommissionAmounts(_, _)
SumOfCommissionAmounts(entries, n) ==
    IF n = 0 THEN Zero
    ELSE Add(SumOfCommissionAmounts(entries, n - 1),
             entries[n].commissionAmount)

(* C19: in every aggregate result grossCommission is the sum of            *)
(* commissionAmount over the entries of tierBreakdown, 0 when the          *)
(* breakdown is empty.                                                     *)
C19_GrossIsSumOfBreakdown ==
    Tiered =>
        ret.grossCommission =
            SumOfCommissionAmounts(ret.tierBreakdown, Len(ret.tierBreakdown))

(* two paying entries, the gross being more than either *)
C19_Witness ==
    /\ Tiered
    /\ Len(ret.tierBreakdown) >= 2
    /\ \A k \in DOMAIN ret.tierBreakdown :
           /\ Gt(ret.tierBreakdown[k].commissionAmount, Zero)
           /\ Gt(ret.grossCommission, ret.tierBreakdown[k].commissionAmount)

(* C20: both calculators process the tiers in ascending floorPercent       *)
(* order whatever the input order, tiers of equal floor keeping their      *)
(* input order: the sorted copy is the input arranged by floor and input   *)
(* position, the entries of tierBreakdown appear in that order, and the    *)
(* attribution records are those of a scan in that order.                  *)
C20_TiersProcessedInFloorOrder ==
    /\ SortTiers(tiers) = TiersInFloorOrder
    /\ (Tiered /\ quota > 0) =>
           ret.tierBreakdown =
               TierLoop(TiersInFloorOrder, 1, bookings, quota,
                        Zero, <<>>).breakdown
    /\ (DealByDeal /\ quota > 0) =>
           ret = DealLoop(SortDeals(deals), 1, quota, TiersInFloorOrder,
                          Zero, <<>>)

(* a schedule given in descending floor order whose two entries come out   *)
(* in ascending order                                                      *)
C20_Witness ==
    /\ Tiered /\ quota > 0
    /\ Len(tiers) = 2
    /\ FloorPct(tiers[1]) > FloorPct(tiers[2])
    /\ Len(ret.tierBreakdown) = 2
    /\ tiers[1].Name # tiers[2].Name
    /\ ret.tierBreakdown[1].tierName = tiers[2].Name
    /\ ret.tierBreakdown[2].tierName = tiers[1].Name

(* the schedule with 0 written in place of every missing floor and rate *)
WithDefaults(ts) ==
    [i \in DOMAIN ts |->
        [ts[i] EXCEPT
            !.Attainment_Floor__c = IF @ = <<>> THEN <<0>> ELSE @,
            !.Commission_Rate__c = IF @ = <<>> THEN <<0>> ELSE @]]

HasNoCeiling(t) == t.Attainment_Ceiling__c = <<>>

(* the schedule of the call holds a tier with a missing floor or rate *)
HasMissingFloorOrRate ==
    /\ called # "none"
    /\ \E i \in DOMAIN tiers :
          \/ tiers[i].Attainment_Floor__c = <<>>
          \/ tiers[i].Commission_Rate__c = <<>>

(* C21: a tier with a missing floorPercent behaves like the same tier with *)
(* floor 0 and a missing ratePercent like rate 0, in the sort and in both  *)
(* calculators; a tier with a missing ceilingPercent has an unbounded      *)
(* ceiling: its bookingsInTier is all of the bookings above its floor, and *)
(* it contains every attainment at or above its floor.                     *)
C21_MissingTierFieldsDefault ==
    /\ HasMissingFloorOrRate =>
          SortTiers(WithDefaults(tiers)) = WithDefaults(SortTiers(tiers))
    /\ (Tiered /\ HasMissingFloorOrRate) =>
          ret = calculateTieredCommission(bookings, quota,
                                          WithDefaults(tiers))
    /\ (DealByDeal /\ HasMissingFloorOrRate) =>
          ret = calculateDealByDealCommission(deals, quota,
                                              WithDefaults(tiers))
    /\ (Tiered /\ quota > 0) =>
          \A i \in DOMAIN tiers :
              HasNoCeiling(tiers[i]) =>
                  TierLocals(tiers[i], bookings, quota).bookingsInTier =
                      Rat(AboveFloorH(tiers[i]), 100)
    /\ DealByDeal =>
          \A k \in DOMAIN ret : \A i \in DOMAIN tiers :
              HasNoCeiling(tiers[i]) =>
                  (InTier(ret[k].attainmentAtDeal, MatchFloor(tiers[i]),
                          MatchCeiling(tiers[i]))
                     <=> Le(Num(FloorPct(tiers[i])),
                            ret[k].attainmentAtDeal))

(* a tier without floor, ceiling and rate takes all the bookings at rate 0 *)
C21_Witness ==
    /\ Tiered /\ quota > 0 /\ bookings > 0
    /\ \E i \in DOMAIN tiers :
          /\ tiers[i].Attainment_Floor__c = <<>>
          /\ tiers[i].Commission_Rate__c = <<>>
          /\ HasNoCeiling(tiers[i])
    /\ \E k \in DOMAIN ret.tierBreakdown :
          /\ ret.tierBreakdown[k].tierName = "Defaulted"
          /\ ret.tierBreakdown[k].bookingsInTier = Num(bookings)
          /\ ret.tierBreakdown[k].rateApplied = Zero

(* a contiguous, non-overlapping schedule from 0 to an uncapped top tier:  *)
(* in floor order the lowest floor is 0, every tier but the last is capped *)
(* at the next tier's floor, and the last is unbounded                     *)
IsWellFormedSchedule ==
    /\ Len(tiers) >= 1
    /\ FloorPct(TiersInFloorOrder[1]) = 0
    /\ IsUnbounded(TiersInFloorOrder[Len(tiers)])
    /\ \A k \in 1..(Len(tiers) - 1) :
          /\ ~IsUnbounded(TiersInFloorOrder[k])
          /\ TiersInFloorOrder[k].Attainment_Ceiling__c[1] =
                FloorPct(TiersInFloorOrder[k + 1])

(* the sum of bookingsInTier over the first n entries of a breakdown *)
RECURSIVE SumOfBookingsInTier(_, _)
SumOfBookingsInTier(entries, n) ==
    IF n = 0 THEN Zero
    ELSE Add(SumOfBookingsInTier(entries, n - 1), entries[n].bookingsInTier)

BreakdownBookings ==
    SumOfBookingsInTier(ret.tierBreakdown, Len(ret.tierBreakdown))

(* C22: for quota > 0, bookings >= 0 and a contiguous, non-overlapping     *)
(* schedule whose lowest floor is 0 and whose top tier is uncapped, the    *)
(* sum of bookingsInTier over tierBreakdown equals bookings.               *)
C22_WellFormedScheduleConservesBookings ==
    (Tiered /\ quota > 0 /\ bookings >= 0 /\ IsWellFormedSchedule) =>
        BreakdownBookings = Num(bookings)

(* bookings beyond the first tier's ceiling, split over two entries *)
C22_Witness ==
    /\ Tiered /\ quota > 0 /\ IsWellFormedSchedule
    /\ Len(tiers) >= 2
    /\ Len(ret.tierBreakdown) = Len(tiers)
    /\ BreakdownBookings = Num(bookings)

(* the ranges [floor, ceiling) of two tiers share a point, a tier without  *)
(* ceiling or with a ceiling of 0 being unbounded                          *)
StartsBelowCeilingOf(a, b) ==
    \/ IsUnbounded(b)
    \/ FloorPct(a) < b.Attainment_Ceiling__c[1]

RangesOverlap(a, b) ==
    /\ StartsBelowCeilingOf(a, a)
    /\ StartsBelowCeilingOf(b, b)
    /\ StartsBelowCeilingOf(a, b)
    /\ StartsBelowCeilingOf(b, a)

IsOverlappingSchedule(ts) ==
    \E i, j \in DOMAIN ts : i # j /\ RangesOverlap(ts[i], ts[j])

(* two tiers of the schedule both run from floor 0 without a ceiling *)
HasTwoUncappedTiersFromZero ==
    \E i, j \in DOMAIN tiers :
        /\ i # j
        /\ FloorPct(tiers[i]) = 0 /\ IsUnbounded(tiers[i])
        /\ FloorPct(tiers[j]) = 0 /\ IsUnbounded(tiers[j])

(* C23: there are a schedule with overlapping tier ranges, a quota > 0 and *)
(* bookings >= 0 for which the sum of bookingsInTier over tierBreakdown is *)
(* strictly greater than bookings: every call with positive bookings and a *)
(* schedule holding two uncapped tiers from floor 0 is one.                *)
C23_OverlappingTiersCanDoubleCount ==
    (Tiered /\ quota > 0 /\ bookings > 0 /\ HasTwoUncappedTiersFromZero) =>
        /\ IsOverlappingSchedule(tiers)
        /\ Gt(BreakdownBookings, Num(bookings))

(* a call whose overlapping schedule counted more than was booked *)
C23_Witness ==
    /\ Tiered /\ quota > 0 /\ bookings >= 0
    /\ IsOverlappingSchedule(tiers)
    /\ Gt(BreakdownBookings, Num(bookings))

(* the tier the attribution matcher selects at the aggregate attainment    *)
(* bookings / quota * 100                                                  *)
MatchedAtAggregateAttainment ==
    findTierForAttainment(Rat(100 * bookings, quota), SortTiers(tiers))

(* the aggregate result gives entry k, of positive bookingsInTier, to a    *)
(* tier whose floor is above the floor of the tier the matcher selects     *)
EntryAboveMatchedTier(k) ==
    /\ k \in DOMAIN ret.tierBreakdown
    /\ k \in DOMAIN PayingTiers
    /\ ret.tierBreakdown[k].bookingsInTier =
          Rat(InTierH(PayingTiers[k]), 100)
    /\ Gt(ret.tierBreakdown[k].bookingsInTier, Zero)
    /\ MatchedAtAggregateAttainment # <<>>
    /\ FloorPct(PayingTiers[k]) > FloorPct(MatchedAtAggregateAttainment[1])

(* an uncapped tier from floor 0 overlapped by a tier of higher floor that *)
(* the bookings have passed                                                *)
HasUncappedBaseUnderHigherTier ==
    \E i, j \in DOMAIN tiers :
        /\ FloorPct(tiers[i]) = 0 /\ IsUnbounded(tiers[i])
        /\ FloorPct(tiers[j]) > 0
        /\ RangesOverlap(tiers[i], tiers[j])
        /\ InTierH(tiers[j]) > 0

WithoutZeroCeilings(ts) ==
    [i \in DOMAIN ts |->
        [ts[i] EXCEPT
            !.Attainment_Ceiling__c = IF @ = <<0>> THEN <<>> ELSE @]]

HasZeroCeiling(t) == t.Attainment_Ceiling__c = <<0>>

(* the schedule holds a tier whose ceiling is explicitly 0 *)
HasSomeZeroCeiling == \E i \in DOMAIN tiers : HasZeroCeiling(tiers[i])

(* C25: a tier whose ceilingPercent is explicitly 0 is treated as uncapped *)
(* by the aggregate calculator and by the attribution matcher: every       *)
(* result is the result for the schedule with that ceiling missing.        *)
C25_ZeroCeilingIsUncapped ==
    /\ (Tiered /\ HasSomeZeroCeiling) =>
          ret = calculateTieredCommission(bookings, quota,
                                          WithoutZeroCeilings(tiers))
    /\ (DealByDeal /\ HasSomeZeroCeiling) =>
          ret = calculateDealByDealCommission(deals, quota,
                                              WithoutZeroCeilings(tiers))
    /\ (DealByDeal /\ HasSomeZeroCeiling) =>
          \A k \in DOMAIN ret :
              findTierForAttainment(ret[k].attainmentAtDeal,
                                    WithoutZeroCeilings(SortTiers(tiers)))
                = findTierForAttainment(ret[k].attainmentAtDeal,
                      SortTiers(WithoutZeroCeilings(tiers)))

(* a tier from floor 100 with ceiling 0 earns an entry for all the         *)
(* bookings above its floor, which a ceiling amount of 0 would not allow   *)
C25_Witness ==
    /\ Tiered /\ quota > 0
    /\ Len(tiers) = 1
    /\ HasZeroCeiling(tiers[1])
    /\ FloorPct(tiers[1]) = 100
    /\ Len(ret.tierBreakdown) = 1
    /\ AboveFloorH(tiers[1]) > 0
    /\ ret.tierBreakdown[1].bookingsInTier =
          Rat(AboveFloorH(tiers[1]), 100)

HasNonNegativeRates == \A i \in DOMAIN tiers : RatePct(tiers[i]) >= 0

(* grossCommission for the same quota and schedule and bookings of b *)
GrossAt(b) == calculateTieredCommission(b, quota, tiers).grossCommission

(* C26: for a fixed quota > 0 and any schedule with non-negative rates,    *)
(* overlapping and gapped ones included, grossCommission is non-decreasing *)
(* in bookings: b1 <= b2 implies gross(b1) <= gross(b2).                   *)
C26_GrossNonDecreasingInBookings ==
    (Tiered /\ quota > 0 /\ HasNonNegativeRates) =>
        \A b \in BookingsTotals :
            /\ (b <= bookings) => Le(GrossAt(b), ret.grossCommission)
            /\ (b >= bookings) => Le(ret.grossCommission, GrossAt(b))

(* an overlapping schedule that pays strictly more for one more unit of    *)
(* bookings                                                                *)
C26_Witness ==
    /\ Tiered /\ quota > 0 /\ HasNonNegativeRates
    /\ IsOverlappingSchedule(tiers)
    /\ bookings - 1 \in BookingsTotals
    /\ Lt(GrossAt(bookings - 1), ret.grossCommission)

----------------------------------------------------------------------------
(* The authentication layer: constants, storage and session functions *)

(* SESSION_CONFIG, in milliseconds *)
MAX_DURATION_MS == 24 * 60 * 60 * 1000

WARNING_THRESHOLD_MS == 30 * 60 * 1000

CHECK_INTERVAL_MS == 60 * 1000

(* The days of clock readings the model follows *)
MaxDays == 1

(* Role names are sequences of words; String.prototype.includes is the     *)
(* test for a contiguous run of words.                                     *)
Includes(roleName, role) ==
    \E i \in 0..(Len(roleName) - Len(role)) :
        SubSeq(roleName, i + 1, i + Len(role)) = role

MANAGER_ROLES ==
    {<<"CEO">>, <<"VP", "of", "Sales">>, <<"Sales", "Manager">>,
     <<"Chief", "of", "Staff">>}

DIRECTOR_ROLES == {<<"Director", "of", "Sales">>, <<"Director">>}

VP_ROLES == {<<"VP", "of", "Sales">>, <<"VP">>, <<"CEO">>}

(* user.UserRole?.Name || '' and the three role tests in their order *)
getAccessLevel(user) ==
    LET roleName == IF user.UserRole = Missing THEN <<>>
                    ELSE user.UserRole[1].Name
    IN  IF \E role \in VP_ROLES : Includes(roleName, role) THEN "vp"
        ELSE IF \E role \in DIRECTOR_ROLES : Includes(roleName, role)
             THEN "director"
        ELSE IF \E role \in MANAGER_ROLES : Includes(roleName, role)
             THEN "manager"
        ELSE "rep"

(* Date.now().toString(): the decimal digits of a non-negative integer *)
RECURSIVE DateNowToString(_)
DateNowToString(n) ==
    IF n < 10 THEN <<n>> ELSE Append(DateNowToString(n \div 10), n % 10)

(* parseInt(stored, 10) on a string of digits, from digit i on with the    *)
(* value acc read so far; Missing is NaN                                   *)
RECURSIVE ParseDigits(_, _, _)
ParseDigits(stored, i, acc) ==
    IF i > Len(stored) THEN acc
    ELSE ParseDigits(stored, i + 1, 10 * acc + stored[i])

parseInt(stored) ==
    IF Len(stored) = 0 THEN Missing ELSE Some(ParseDigits(stored, 1, 0))

(* localStorage and sessionStorage without any sf_* item *)
EmptyLocalStorage ==
    [ACCESS_TOKEN |-> Missing, REFRESH_TOKEN |-> Missing,
     INSTANCE_URL |-> Missing, USER_ID |-> Missing,
     SESSION_START |-> Missing]

EmptySessionStorage == [CODE_VERIFIER |-> Missing, OAUTH_STATE |-> Missing]

getStoredToken(ls) == ls.ACCESS_TOKEN

getStoredInstanceUrl(ls) == ls.INSTANCE_URL

getStoredUserId(ls) == ls.USER_ID

(* Variant: the session start survives clearTokens *)
clearTokensKeepsSessionStart(ls) ==
    [EmptyLocalStorage EXCEPT !.SESSION_START = ls.SESSION_START]

(* Variant: clearTokens that removes nothing *)
clearTokensRemovesNothing(ls) == ls

clearTokens(ls) ==
    [ls EXCEPT !.ACCESS_TOKEN = Missing, !.REFRESH_TOKEN = Missing,
               !.INSTANCE_URL = Missing, !.USER_ID = Missing,
               !.SESSION_START = Missing]

(* null for a missing or empty item and for NaN, else the timestamp *)
getSessionStart(ls) ==
    IF ls.SESSION_START = Missing \/ ls.SESSION_START[1] = <<>>
    THEN Missing
    ELSE parseInt(ls.SESSION_START[1])

(* Variant: Date.now() - sessionStart >= MAX_DURATION_MS *)
IsPastMaxDurationInclusive(elapsed) == elapsed >= MAX_DURATION_MS

(* Date.now() - sessionStart > SESSION_CONFIG.MAX_DURATION_MS *)
IsPastMaxDuration(elapsed) == elapsed > MAX_DURATION_MS

isSessionExpired(ls, t) ==
    LET sessionStart == getSessionStart(ls)
    IN  IF sessionStart = Missing \/ sessionStart[1] = 0 THEN TRUE
        ELSE IsPastMaxDuration(t - sessionStart[1])

isSessionExpiringSoon(ls, t) ==
    LET sessionStart == getSessionStart(ls)
    IN  IF sessionStart = Missing \/ sessionStart[1] = 0 THEN FALSE
        ELSE LET elapsed == t - sessionStart[1]
                 remaining == MAX_DURATION_MS - elapsed
             IN  remaining > 0 /\ remaining <= WARNING_THRESHOLD_MS

getSessionTimeRemaining(ls, t) ==
    LET sessionStart == getSessionStart(ls)
    IN  IF sessionStart = Missing \/ sessionStart[1] = 0 THEN 0
        ELSE LET remaining == MAX_DURATION_MS - (t - sessionStart[1])
             IN  IF remaining > 0 THEN remaining ELSE 0

extendSession(ls, t) ==
    [ls EXCEPT !.SESSION_START = Some(DateNowToString(t))]

----------------------------------------------------------------------------
(* The authentication layer: what the browser and Salesforce supply *)

(* the clock readings at which something is observed: a first page load,   *)
(* one millisecond later, and the start of the warning period, on each day *)
Instants ==
    {CHECK_INTERVAL_MS + k * MAX_DURATION_MS + o :
        k \in 0..MaxDays,
        o \in {0, 1, MAX_DURATION_MS - WARNING_THRESHOLD_MS}}

(* crypto.randomUUID() *)
OAuthStates == {"state-1", "state-2"}

(* generateCodeVerifier() *)
CodeVerifiers == {"verifier-1"}

HomeLocation ==
    [pathname |-> "/", code |-> Missing, state |-> Missing,
     error |-> Missing]

(* the addresses a page is loaded at: the application root, the callback   *)
(* of Salesforce with a code and a state, a callback whose state was not   *)
(* issued here, callbacks without code, without state and with an error,   *)
(* and the root with a code in its query                                   *)
Locations ==
    {HomeLocation,
     [pathname |-> "/oauth/callback", code |-> Some("code-1"),
      state |-> Some("state-1"), error |-> Missing],
     [pathname |-> "/oauth/callback", code |-> Some("code-1"),
      state |-> Some("state-2"), error |-> Missing],
     [pathname |-> "/oauth/callback", code |-> Missing,
      state |-> Some("state-1"), error |-> Missing],
     [pathname |-> "/oauth/callback", code |-> Some("code-1"),
      state |-> Missing, error |-> Missing],
     [pathname |-> "/oauth/callback", code |-> Missing,
      state |-> Some("state-1"), error |-> Some("access_denied")],
     [pathname |-> "/", code |-> Some("code-1"),
      state |-> Some("state-1"), error |-> Missing]}

(* the answers of POST /api/token: the fetch rejects, the status is not    *)
(* OK, the body is not JSON, or the body is a token record, whose          *)
(* refresh_token and id may be absent; id is a URL, here its path segments *)
TokenResponses ==
    {[kind |-> "rejected"], [kind |-> "notOk"], [kind |-> "notJson"]}
    \cup
    {[kind |-> "ok", access_token |-> "token-1", refresh_token |-> r,
      instance_url |-> "https://na1.salesforce.com", id |-> i] :
        r \in {Missing, Some("refresh-1")},
        i \in {Missing, Some(<<"id", "00D1", "005A">>)}}

(* the records a User query answers with *)
UserPool ==
    {[Id |-> "005A", UserRole |-> Some([Name |-> <<"Account", "Executive">>])],
     [Id |-> "005A", UserRole |-> Some([Name |-> <<"Sales", "Manager">>])],
     [Id |-> "005A", UserRole |-> Missing]}

(* the answers of getDirectReports: a rejection or the list of reports *)
ReportsResponses ==
    {[kind |-> "rejected"],
     [kind |-> "ok", reports |-> <<>>],
     [kind |-> "ok", reports |-> <<[Id |-> "005B"]>>]}

SessionExpiredMessage == "Your session has expired. Please log in again."

LoginFailedMessage == "Failed to complete login. Please try again."

(* window.location.pathname === '/oauth/callback' || search includes       *)
(* 'code=' || search includes 'error='                                     *)
isCallback(loc) ==
    \/ loc.pathname = "/oauth/callback"
    \/ loc.code # Missing
    \/ loc.error # Missing

(* truthiness of an optional string *)
IsSet(o) == o # Missing /\ o[1] # ""

IdleLoadUserInfo == [pc |-> "idle", fetching |-> FALSE, userId |-> ""]

(* the locals of checkAuth and handleCallback at position pc *)
CheckAuthAt(pc, success, code, codeVerifier) ==
    [pc |-> pc, success |-> success, code |-> code,
     codeVerifier |-> codeVerifier]

(* the useState and useRef cells as AuthProvider constructs them *)
ProviderConstructed ==
    /\ isAuthenticated = FALSE
    /\ isLoading = TRUE
    /\ authError = Missing
    /\ currentUser = Missing
    /\ accessLevel = "rep"
    /\ visibleUserIds = <<>>
    /\ loadingUserInfo = TRUE
    /\ sessionExpiringSoon = FALSE
    /\ sessionTimeRemaining = 0
    /\ currentUserIdRef = ""

(* a first page load in a browser that holds nothing yet *)
AuthInit ==
    /\ localStorage = EmptyLocalStorage
    /\ sessionStorage = EmptySessionStorage
    /\ location \in Locations
    /\ now = CHECK_INTERVAL_MS
    /\ ProviderConstructed
    /\ checkAuth = CheckAuthAt("start", FALSE, "", "")
    /\ loadUserInfo = IdleLoadUserInfo
    /\ tiers = <<>> /\ deals = <<>> /\ bookings = 0 /\ quota = 0
    /\ called = "none" /\ ret = NoResult

----------------------------------------------------------------------------
(* The authentication layer: the actions of a page *)

(* getCurrentUser and apiRequest up to the fetch: a request is sent only   *)
(* with a stored user id, access token and instance URL; without one of    *)
(* them the promise settles to null                                        *)
SendsUserQuery(ls) ==
    /\ IsSet(getStoredUserId(ls))
    /\ IsSet(getStoredToken(ls))
    /\ IsSet(getStoredInstanceUrl(ls))

(* The two effects on isAuthenticated, run after it became true with the   *)
(* storage ls: checkSession at once, and loadUserInfo up to its first      *)
(* await.                                                                  *)
EffectsWhenAuthenticated(ls) ==
    LET expired == isSessionExpired(ls, now)
        after == IF expired THEN clearTokens(ls) ELSE ls
    IN  /\ localStorage' = after
        /\ isAuthenticated' = ~expired
        /\ authError' = IF expired THEN Some(SessionExpiredMessage)
                        ELSE Missing
        /\ sessionExpiringSoon' =
              IF expired THEN sessionExpiringSoon
              ELSE isSessionExpiringSoon(ls, now)
        /\ sessionTimeRemaining' =
              IF expired THEN sessionTimeRemaining
              ELSE getSessionTimeRemaining(ls, now)
        /\ loadingUserInfo' = ~expired
        /\ loadUserInfo' = [pc |-> "awaitUser",
                            fetching |-> SendsUserQuery(after),
                            userId |-> ""]

(* handleCallback up to its fetch: "false" for a return of false, "fetch"  *)
(* when the token request is sent                                          *)
HandleCallbackChecks(loc, ss) ==
    IF IsSet(loc.error) THEN "false"
    ELSE IF loc.state # ss.OAUTH_STATE THEN "false"
    ELSE IF ~IsSet(loc.code) THEN "false"
    ELSE IF ~IsSet(ss.CODE_VERIFIER) THEN "false"
    ELSE "fetch"

(* The mount effects on a callback address: checkAuth calls handleCallback *)
(* and awaits it; loadUserInfo finds isAuthenticated false.                *)
MountOnCallback ==
    /\ checkAuth.pc = "start"
    /\ isCallback(location)
    /\ checkAuth' =
          IF HandleCallbackChecks(location, sessionStorage) = "fetch"
          THEN CheckAuthAt("awaitFetch", FALSE, location.code[1],
                           sessionStorage.CODE_VERIFIER[1])
          ELSE CheckAuthAt("returned", FALSE, "", "")
    /\ loadingUserInfo' = FALSE
    /\ UNCHANGED <<localStorage, sessionStorage, location, now,
                   isAuthenticated, isLoading, authError, currentUser,
                   accessLevel, visibleUserIds, sessionExpiringSoon,
                   sessionTimeRemaining, currentUserIdRef, loadUserInfo>>
    /\ UNCHANGED calcVars

(* The mount effects on any other address: the stored token and session *)
MountOnStoredSession ==
    /\ checkAuth.pc = "start"
    /\ ~isCallback(location)
    /\ checkAuth' = CheckAuthAt("done", FALSE, "", "")
    /\ isLoading' = FALSE
    /\ LET token == getStoredToken(localStorage)
           sessionValid == ~isSessionExpired(localStorage, now)
       IN  IF IsSet(token) /\ sessionValid
           THEN EffectsWhenAuthenticated(localStorage)
           ELSE /\ localStorage' = IF IsSet(token)
                                   THEN clearTokens(localStorage)
                                   ELSE localStorage
                /\ isAuthenticated' = FALSE
                /\ authError' = IF IsSet(token)
                                THEN Some(SessionExpiredMessage)
                                ELSE Missing
                /\ loadingUserInfo' = FALSE
                /\ UNCHANGED <<sessionExpiringSoon, sessionTimeRemaining,
                               loadUserInfo>>
    /\ UNCHANGED <<sessionStorage, location, now, currentUser, accessLevel,
                   visibleUserIds, currentUserIdRef>>
    /\ UNCHANGED calcVars

(* localStorage after the writes of handleCallback for a token record:     *)
(* tokenData.id.split('/').pop() throws for an absent id, after the access *)
(* token, the refresh token and the instance URL were written              *)
StoreTokens(ls, tokenData, t) ==
    LET first == [ls EXCEPT
                     !.ACCESS_TOKEN = Some(tokenData.access_token),
                     !.REFRESH_TOKEN =
                         IF IsSet(tokenData.refresh_token)
                         THEN tokenData.refresh_token ELSE @,
                     !.INSTANCE_URL = Some(tokenData.instance_url)]
    IN  IF tokenData.id = Missing THEN first
        ELSE [first EXCEPT
                 !.USER_ID = Some(tokenData.id[1][Len(tokenData.id[1])]),
                 !.SESSION_START = Some(DateNowToString(t))]

(* Variant: handleCallback answers true for every token record *)
CallbackSucceedsOnAnyRecord(response) == response.kind = "ok"

(* handleCallback returns true: the answer is OK, its body is a record and *)
(* no statement of the try block threw                                     *)
CallbackSucceeds(response) ==
    response.kind = "ok" /\ response.id # Missing

(* Variant: the code verifier and the OAuth state stay in sessionStorage *)
KeepOAuthItems(ss) == ss

(* sessionStorage.removeItem of the code verifier and the OAuth state *)
RemoveOAuthItems(ss) ==
    [ss EXCEPT !.CODE_VERIFIER = Missing, !.OAUTH_STATE = Missing]

(* The token request is answered and handleCallback returns *)
TokenResponse ==
    /\ checkAuth.pc = "awaitFetch"
    /\ \E response \in TokenResponses :
          /\ localStorage' =
                IF response.kind = "ok"
                THEN StoreTokens(localStorage, response, now)
                ELSE localStorage
          /\ sessionStorage' =
                IF CallbackSucceeds(response)
                THEN RemoveOAuthItems(sessionStorage)
                ELSE sessionStorage
          /\ checkAuth' = CheckAuthAt("returned", CallbackSucceeds(response),
                                      checkAuth.code, checkAuth.codeVerifier)
    /\ UNCHANGED <<location, now, isAuthenticated, isLoading, authError,
                   currentUser, accessLevel, visibleUserIds, loadingUserInfo,
                   sessionExpiringSoon, sessionTimeRemaining,
                   currentUserIdRef, loadUserInfo>>
    /\ UNCHANGED calcVars

(* checkAuth after `await handleCallback()` *)
CheckAuthResume ==
    /\ checkAuth.pc = "returned"
    /\ location' = HomeLocation
    /\ checkAuth' = [checkAuth EXCEPT !.pc = "done"]
    /\ isLoading' = FALSE
    /\ IF checkAuth.success
       THEN EffectsWhenAuthenticated(localStorage)
       ELSE /\ localStorage' = clearTokens(localStorage)
            /\ isAuthenticated' = FALSE
            /\ authError' = Some(LoginFailedMessage)
            /\ UNCHANGED <<sessionExpiringSoon, sessionTimeRemaining,
                           loadingUserInfo, loadUserInfo>>
    /\ UNCHANGED <<sessionStorage, now, currentUser, accessLevel,
                   visibleUserIds, currentUserIdRef>>
    /\ UNCHANGED calcVars

(* checkSession, fired by the interval of the session monitoring effect;   *)
(* on expiry the loadUserInfo effect runs with isAuthenticated false       *)
CheckSession ==
    /\ checkAuth.pc = "done"
    /\ isAuthenticated
    /\ IF isSessionExpired(localStorage, now)
       THEN /\ localStorage' = clearTokens(localStorage)
            /\ isAuthenticated' = FALSE
            /\ authError' = Some(SessionExpiredMessage)
            /\ loadingUserInfo' = FALSE
            /\ UNCHANGED <<sessionExpiringSoon, sessionTimeRemaining>>
       ELSE /\ sessionExpiringSoon' = isSessionExpiringSoon(localStorage, now)
            /\ sessionTimeRemaining' =
                  getSessionTimeRemaining(localStorage, now)
            /\ UNCHANGED <<localStorage, isAuthenticated, authError,
                           loadingUserInfo>>
    /\ UNCHANGED <<sessionStorage, location, now, isLoading, currentUser,
                   accessLevel, visibleUserIds, currentUserIdRef, checkAuth,
                   loadUserInfo>>
    /\ UNCHANGED calcVars

(* logout() of the context value, callable by every consumer that App      *)
(* renders for an authenticated user, at any time: the provider does not   *)
(* wait for a loadUserInfo run to finish. The loadUserInfo effect then     *)
(* runs with isAuthenticated false.                                        *)
Logout ==
    /\ checkAuth.pc = "done"
    /\ isAuthenticated
    /\ localStorage' = clearTokens(localStorage)
    /\ isAuthenticated' = FALSE
    /\ currentUser' = Missing
    /\ accessLevel' = "rep"
    /\ visibleUserIds' = <<>>
    /\ authError' = Missing
    /\ loadingUserInfo' = FALSE
    /\ UNCHANGED <<sessionStorage, location, now, isLoading,
                   sessionExpiringSoon, sessionTimeRemaining,
                   currentUserIdRef, checkAuth, loadUserInfo>>
    /\ UNCHANGED calcVars

(* extendUserSession(), from the session warning of an authenticated user *)
ExtendUserSession ==
    /\ checkAuth.pc = "done"
    /\ isAuthenticated
    /\ localStorage' = extendSession(localStorage, now)
    /\ sessionExpiringSoon' = FALSE
    /\ sessionTimeRemaining' = MAX_DURATION_MS
    /\ UNCHANGED <<sessionStorage, location, now, isAuthenticated, isLoading,
                   authError, currentUser, accessLevel, visibleUserIds,
                   loadingUserInfo, currentUserIdRef, checkAuth,
                   loadUserInfo>>
    /\ UNCHANGED calcVars

(* loadUserInfo after `await getCurrentUser()`: the answer is a record of  *)
(* the query or null; getDirectReports sends its request only with a       *)
(* stored access token and instance URL, and throws without                *)
LoadUserResponse ==
    /\ loadUserInfo.pc = "awaitUser"
    /\ \E user \in (IF loadUserInfo.fetching
                    THEN {Missing} \cup {Some(u) : u \in UserPool}
                    ELSE {Missing}) :
          LET level == getAccessLevel(user[1])
              userId == getStoredUserId(localStorage)
              applies == user # Missing
              asksReports == /\ applies /\ IsSet(userId)
                             /\ level \in {"manager", "director", "vp"}
              sendsReports == /\ asksReports
                              /\ IsSet(getStoredToken(localStorage))
                              /\ IsSet(getStoredInstanceUrl(localStorage))
          IN  /\ currentUser' = IF applies THEN user ELSE currentUser
              /\ accessLevel' = IF applies THEN level ELSE accessLevel
              /\ currentUserIdRef' = IF applies /\ IsSet(userId)
                                     THEN userId[1] ELSE currentUserIdRef
              /\ visibleUserIds' =
                    IF applies /\ IsSet(userId) /\ ~asksReports
                    THEN <<userId[1]>> ELSE visibleUserIds
              /\ loadUserInfo' =
                    IF sendsReports
                    THEN [pc |-> "awaitReports", fetching |-> TRUE,
                          userId |-> userId[1]]
                    ELSE IdleLoadUserInfo
              /\ loadingUserInfo' = IF sendsReports THEN loadingUserInfo
                                    ELSE FALSE
    /\ UNCHANGED <<localStorage, sessionStorage, location, now,
                   isAuthenticated, isLoading, authError,
                   sessionExpiringSoon, sessionTimeRemaining, checkAuth>>
    /\ UNCHANGED calcVars

(* loadUserInfo after `await getDirectReports(userId)` *)
ReportsResponse ==
    /\ loadUserInfo.pc = "awaitReports"
    /\ \E response \in ReportsResponses :
          visibleUserIds' =
              IF response.kind = "ok"
              THEN <<loadUserInfo.userId>> \o
                   [k \in DOMAIN response.reports |-> response.reports[k].Id]
              ELSE visibleUserIds
    /\ loadUserInfo' = IdleLoadUserInfo
    /\ loadingUserInfo' = FALSE
    /\ UNCHANGED <<localStorage, sessionStorage, location, now,
                   isAuthenticated, isLoading, authError, currentUser,
                   accessLevel, sessionExpiringSoon, sessionTimeRemaining,
                   currentUserIdRef, checkAuth>>
    /\ UNCHANGED calcVars

(* initiateLogin(), from the login page: the verifier and the state are    *)
(* stored and the browser leaves for Salesforce, which unloads the page    *)
InitiateLogin ==
    /\ checkAuth.pc = "done"
    /\ ~isAuthenticated
    /\ \E codeVerifier \in CodeVerifiers, state \in OAuthStates :
          sessionStorage' = [CODE_VERIFIER |-> Some(codeVerifier),
                             OAUTH_STATE |-> Some(state)]
    /\ checkAuth' = CheckAuthAt("unloaded", FALSE, "", "")
    /\ loadUserInfo' = IdleLoadUserInfo
    /\ UNCHANGED <<localStorage, location, now, isAuthenticated, isLoading,
                   authError, currentUser, accessLevel, visibleUserIds,
                   loadingUserInfo, sessionExpiringSoon,
                   sessionTimeRemaining, currentUserIdRef>>
    /\ UNCHANGED calcVars

(* The browser loads the page at an address: the return from Salesforce, a *)
(* reload or a visit.  The storages stay; AuthProvider is constructed anew *)
(* and the functions of the page before are gone.                          *)
LoadPage ==
    /\ checkAuth.pc # "start"
    /\ location' \in Locations
    /\ isAuthenticated' = FALSE
    /\ isLoading' = TRUE
    /\ authError' = Missing
    /\ currentUser' = Missing
    /\ accessLevel' = "rep"
    /\ visibleUserIds' = <<>>
    /\ loadingUserInfo' = TRUE
    /\ sessionExpiringSoon' = FALSE
    /\ sessionTimeRemaining' = 0
    /\ currentUserIdRef' = ""
    /\ checkAuth' = CheckAuthAt("start", FALSE, "", "")
    /\ loadUserInfo' = IdleLoadUserInfo
    /\ UNCHANGED <<localStorage, sessionStorage, now>>
    /\ UNCHANGED calcVars

(* Time passes, up to a later clock reading *)
PassTime ==
    /\ now' \in {t \in Instants : t > now}
    /\ UNCHANGED <<localStorage, sessionStorage, location, isAuthenticated,
                   isLoading, authError, currentUser, accessLevel,
                   visibleUserIds, loadingUserInfo, sessionExpiringSoon,
                   sessionTimeRemaining, currentUserIdRef, checkAuth,
                   loadUserInfo>>
    /\ UNCHANGED calcVars

AuthNext ==
    \/ MountOnCallback
    \/ MountOnStoredSession
    \/ TokenResponse
    \/ CheckAuthResume
    \/ CheckSession
    \/ Logout
    \/ ExtendUserSession
    \/ LoadUserResponse
    \/ ReportsResponse
    \/ InitiateLogin
    \/ LoadPage
    \/ PassTime

AuthSpec == AuthInit /\ [][AuthNext]_vars

(* setInterval(checkSession, CHECK_INTERVAL_MS) fires checkSession again    *)
(* and again for as long as the page shows an authenticated user           *)
AuthFairSpec ==
    /\ AuthSpec
    /\ WF_vars(CheckSession)

----------------------------------------------------------------------------
(* Claims about the authentication layer *)

(* the callback has no error parameter, its state equals the stored OAuth  *)
(* state, it carries a code, and a code verifier is stored                 *)
CallbackAccepted ==
    /\ location.error = Missing
    /\ location.state = sessionStorage.OAUTH_STATE
    /\ location.code # Missing
    /\ sessionStorage.CODE_VERIFIER # Missing

(* handleCallback returns in this step *)
HandleCallbackReturns ==
    /\ checkAuth.pc \in {"start", "awaitFetch"}
    /\ checkAuth'.pc = "returned"

(* the four items of a login are in localStorage after the step, the       *)
(* session start being the time of the step                                *)
LoginStored ==
    /\ localStorage'.ACCESS_TOKEN # Missing
    /\ localStorage'.INSTANCE_URL # Missing
    /\ localStorage'.USER_ID # Missing
    /\ getSessionStart(localStorage') = Some(now)

(* C27: handleCallback writes the access token, instance URL, user id and  *)
(* session start only when the callback has no error parameter, its state  *)
(* equals the stored OAuth state, a code is present, a code verifier is    *)
(* stored and the token exchange answered (it returns only then from its   *)
(* fetch); it returns true exactly when it has written all four; on every  *)
(* other path it returns false and writes nothing; after a return of true  *)
(* the stored state and verifier are gone, and handleCallback with the     *)
(* same callback parameters returns false.                                 *)
C27_CallbackWritesOnlyWhenAccepted ==
    [][HandleCallbackReturns =>
          /\ (localStorage' # localStorage) =>
                (CallbackAccepted /\ checkAuth.pc = "awaitFetch")
          /\ checkAuth'.success <=> (LoginStored /\ CallbackAccepted)
          /\ ~CallbackAccepted =>
                (~checkAuth'.success /\ localStorage' = localStorage)
          /\ checkAuth'.success =>
                /\ sessionStorage' = EmptySessionStorage
                /\ HandleCallbackChecks(location', sessionStorage') = "false"
          /\ ~checkAuth'.success => sessionStorage' = sessionStorage
    ]_vars

(* handleCallback has returned true: the login is stored and the OAuth     *)
(* items are removed                                                       *)
C27_Witness ==
    /\ checkAuth.pc = "returned"
    /\ checkAuth.success
    /\ localStorage.ACCESS_TOKEN = Some("token-1")
    /\ localStorage.USER_ID = Some("005A")
    /\ getSessionStart(localStorage) = Some(now)
    /\ sessionStorage = EmptySessionStorage
    /\ location.code = Some("code-1")


(* C28: whenever the provider has finished loading and is not              *)
(* authenticated, localStorage holds no access token and no refresh       *)
(* token: the failed callback, the expired session found at mount,         *)
(* the expiry found by the session monitor and logout have all cleared     *)
(* the tokens.                                                             *)
C28_UnauthenticatedHoldsNoToken ==
    (~isLoading /\ ~isAuthenticated) =>
        /\ getStoredToken(localStorage) = Missing
        /\ localStorage.REFRESH_TOKEN = Missing

(* the provider ended unauthenticated on a path that had tokens to clear:  *)
(* a session that expired                                                  *)
C28_Witness ==
    /\ ~isLoading
    /\ ~isAuthenticated
    /\ authError = Some(SessionExpiredMessage)
    /\ getStoredToken(localStorage) = Missing


(* the state logout() leaves behind: not authenticated, no error, the      *)
(* tokens cleared, currentUser null, accessLevel 'rep' and visibleUserIds  *)
(* empty, on a page whose checkAuth has finished                           *)
LoggedOutAndCleared ==
    /\ checkAuth.pc = "done"
    /\ ~isAuthenticated
    /\ authError = Missing
    /\ getStoredToken(localStorage) = Missing
    /\ accessLevel = "rep"
    /\ currentUser = Missing
    /\ visibleUserIds = <<>>

ElapsedExceedsMax ==
    /\ getSessionStart(localStorage) # Missing
    /\ now - getSessionStart(localStorage)[1] > 24 * 60 * 60 * 1000

(* a step in which the session monitor logs the user out: the page stays,  *)
(* isAuthenticated turns false and the error is the session-expired        *)
(* message (logout() leaves no error)                                      *)
MonitorLogsOut ==
    /\ isAuthenticated
    /\ ~isAuthenticated'
    /\ checkAuth'.pc = "done"
    /\ authError' = Some(SessionExpiredMessage)

(* C30: while isAuthenticated is true, a session whose age exceeds         *)
(* MAX_DURATION_MS and that is not extended is ended by the next periodic  *)
(* check, which clears the tokens, sets isAuthenticated to false and sets  *)
(* the session-expired error; a session of age at most MAX_DURATION_MS is  *)
(* never logged out by the monitor.                                        *)
C30_ExpiredSessionIsEndedByMonitor ==
    /\ [][/\ (CheckSession /\ ElapsedExceedsMax) =>
                 /\ ~isAuthenticated'
                 /\ getStoredToken(localStorage') = Missing
                 /\ localStorage'.REFRESH_TOKEN = Missing
                 /\ getSessionStart(localStorage') = Missing
                 /\ authError' = Some(SessionExpiredMessage)
          /\ (CheckSession /\ ~ElapsedExceedsMax) =>
                 /\ isAuthenticated'
                 /\ localStorage' = localStorage
                 /\ authError' = authError
          /\ MonitorLogsOut => ElapsedExceedsMax
       ]_vars
    /\ (isAuthenticated /\ ElapsedExceedsMax)
          ~> (~isAuthenticated \/ ~ElapsedExceedsMax)

(* the monitor has ended the session of a user whose record was loaded:    *)
(* the tokens are cleared and the error is the session-expired message     *)
C30_Witness ==
    /\ checkAuth.pc = "done"
    /\ ~isAuthenticated
    /\ currentUser # Missing
    /\ authError = Some(SessionExpiredMessage)
    /\ getStoredToken(localStorage) = Missing
    /\ getSessionStart(localStorage) = Missing

====
